---- MODULE Spec2Model ----
(***************************************************************************)
(* A model of the YUAG search service: luxserver.py (the query,           *)
(* aggregation and formatting pipeline and the one-request-per-connection  *)
(* accept loop) and lux.py (the display client's submit_query).            *)
(*                                                                         *)
(* Text is modelled as a sequence of code points, so that Python's         *)
(* str.lower, Python's string comparison, SQLite's BINARY collation and    *)
(* SQLite's LIKE are each computed as the program computes them:           *)
(*   10 newline  32 space  37 '%'  45 '-'  48 '0' .. 57 '9'                *)
(*   65 'A' .. 90 'Z'   95 '_'   97 'a' .. 122 'z'   8211 en dash          *)
(* Python's None and SQL's NULL are the value None, which is no text.      *)
(***************************************************************************)
EXTENDS Integers, Sequences, FiniteSets, TLC

VARIABLES
    \* --- build_timespan_str applied to one pair of dates
    bdate, edate, timespan, tsDone,
    \* --- the relational store (lux.sqlite), read-only
    store,
    \* --- one call of a resolver: its name, argument, the rows the store
    \*     returned to it, and what it returned
    call,
    \* --- the display client (lux.py): where submit_query is, the rows of
    \*     results_list, the rows shown when the query was submitted, the
    \*     QMessageBox shown, the bytes read, the decoded response, and the
    \*     number of queries submitted
    client,
    \* --- the listening process (main): the state of its accept loop
    server,
    \* --- the connection handle_client is serving, or served last
    conn

tsVars == <<bdate, edate, timespan, tsDone>>
serverVars == <<server, conn>>
vars == <<bdate, edate, timespan, tsDone, store, call, client, server, conn>>

\* the server's variables in a specification that does not run it
ServerOff == server = [listener |-> "off"] /\ conn = [state |-> "NONE"]

(***************************************************************************)
(* Text                                                                    *)
(***************************************************************************)
None == <<-1>>

\* str.lower on one code point (ASCII letters)
LowerChar(c) == IF c >= 65 /\ c <= 90 THEN c + 32 ELSE c

\* str.lower
Lower(s) == [i \in 1..Len(s) |-> LowerChar(s[i])]

\* Python's s < t on str, which is also memcmp order (SQLite BINARY) on ASCII
RECURSIVE StrLess(_, _)
StrLess(s, t) ==
    IF t = <<>> THEN FALSE
    ELSE IF s = <<>> THEN TRUE
    ELSE IF Head(s) # Head(t) THEN Head(s) < Head(t)
    ELSE StrLess(Tail(s), Tail(t))

StrLeq(s, t) == s = t \/ StrLess(s, t)

\* All texts over alphabet of length at most n
TextsUpTo(alphabet, n) == UNION {[1..k -> alphabet] : k \in 0..n}

(***************************************************************************)
(* build_timespan_str                                                      *)
(***************************************************************************)
EnDash == <<8211>>

S0580 == <<48, 53, 56, 48>>
S1976 == <<49, 57, 55, 54>>
S2001 == <<50, 48, 48, 49>>

\* y(s): s[:4] if s and len(s) >= 4 else None
y(s) == IF s # None /\ s # <<>> /\ Len(s) >= 4 THEN SubSeq(s, 1, 4) ELSE None

\* the branch on by / ey: "-" + token when token[0] == "0"
year_val(tok) ==
    IF tok # None
    THEN IF tok[1] = 48 THEN <<45>> \o tok ELSE tok
    ELSE <<>>

\* a plausible slip: the only-end case gets a leading dash like the only-begin case
build_timespan_str_symmetric(b, e) ==
    LET by_val == year_val(y(b))
        ey_val == year_val(y(e))
    IN  IF by_val # <<>> /\ ey_val # <<>> THEN by_val \o <<32>> \o EnDash \o <<32>> \o ey_val
        ELSE IF by_val # <<>> THEN by_val \o EnDash
        ELSE IF ey_val # <<>> THEN EnDash \o ey_val
        ELSE <<>>

build_timespan_str(b, e) ==
    LET by_val == year_val(y(b))
        ey_val == year_val(y(e))
    IN  IF by_val # <<>> /\ ey_val # <<>> THEN by_val \o <<32>> \o EnDash \o <<32>> \o ey_val
        ELSE IF by_val # <<>> /\ ey_val = <<>> THEN by_val \o EnDash
        ELSE ey_val

(***************************************************************************)
(* Sorting: Python's sorted / list.sort (stable) on a key that is a tuple  *)
(* of str, compared as Python compares tuples                              *)
(***************************************************************************)
RECURSIVE TupleLess(_, _)
TupleLess(k1, k2) ==
    IF k1 = <<>> \/ k2 = <<>> THEN k1 = <<>> /\ k2 # <<>>
    ELSE IF Head(k1) # Head(k2) THEN StrLess(Head(k1), Head(k2))
    ELSE TupleLess(Tail(k1), Tail(k2))

TupleLeq(k1, k2) == k1 = k2 \/ TupleLess(k1, k2)

\* items are [key, val]; x goes after every item whose key is <= its own
RECURSIVE InsertByKey(_, _)
InsertByKey(x, s) ==
    IF s = <<>> THEN <<x>>
    ELSE IF TupleLess(x.key, Head(s).key) THEN <<x>> \o s
    ELSE <<Head(s)>> \o InsertByKey(x, Tail(s))

RECURSIVE SortItems(_)
SortItems(s) ==
    IF s = <<>> THEN <<>>
    ELSE InsertByKey(s[Len(s)], SortItems(SubSeq(s, 1, Len(s) - 1)))

SortedVals(items) == LET r == SortItems(items) IN [i \in 1..Len(r) |-> r[i].val]

\* "\n".join(list)
RECURSIVE JoinLines(_)
JoinLines(l) ==
    IF l = <<>> THEN <<>>
    ELSE IF Len(l) = 1 THEN l[1]
    ELSE l[1] \o <<10>> \o JoinLines(Tail(l))

\* every order in which the rows of a result set can come back
RowOrders(s) ==
    {[i \in 1..Len(s) |-> s[p[i]]] :
        p \in {q \in [1..Len(s) -> 1..Len(s)] :
                  \A i, j \in 1..Len(s) : i # j => q[i] # q[j]}}

SeqsUpTo(S, n) == UNION {[1..k -> S] : k \in 0..n}

IsTruthy(v) == v # None /\ v # <<>>

(***************************************************************************)
(* The store: tables as sequences of rows (a table may repeat a row)       *)
(***************************************************************************)
Zed == <<90, 101, 100>>
Ann == <<65, 110, 110>>
ann == <<97, 110, 110>>
French == <<70, 114>>
french == <<102, 114>>
American == <<65, 109>>
Art == <<65, 114, 116>>
art == <<97, 114, 116>>
Bowl == <<66, 111>>
BlueVase == <<66, 108, 117, 101>>
amphora == <<97, 109, 112, 104>>

AgentsTable ==
    <<[name |-> Zed, begin_date |-> S1976, end_date |-> None],
      [name |-> Ann, begin_date |-> S0580, end_date |-> S0580 \o <<45, 48, 49>>],
      [name |-> ann, begin_date |-> None, end_date |-> S2001]>>

NationalitiesTable == <<French, french, American, None, <<>>>>
ClassifiersTable == <<Art, art, Bowl, None, <<>>>>

EmptyStore ==
    [objects |-> <<>>, agents |-> AgentsTable, productions |-> <<>>,
     nationalities |-> NationalitiesTable, agents_nationalities |-> <<>>,
     classifiers |-> ClassifiersTable, objects_classifiers |-> <<>>]

\* SQL comparison of two values under ORDER BY ... ASC with the BINARY
\* collation: NULL sorts before every text
SqlLess(a, b) ==
    IF a = None THEN b # None
    ELSE IF b = None THEN FALSE
    ELSE StrLess(a, b)

(***************************************************************************)
(* fetch_nationalities                                                     *)
(***************************************************************************)
\* the join of agents_nationalities and nationalities for one agent, in table order
nationality_join(st, agt_id) ==
    LET links == SelectSeq(st.agents_nationalities, LAMBDA r : r.agt_id = agt_id)
    IN  [i \in 1..Len(links) |-> st.nationalities[links[i].nat_id]]

\* what cursor.fetchall() may return: no ORDER BY, so any order
nationality_rows(st, agt_id) == RowOrders(nationality_join(st, agt_id))

\* a plausible slip: sorted(set(descs), ...) drops repeated descriptors
fetch_nationalities_dedup(rows) ==
    LET descs == SelectSeq(rows, IsTruthy)
        first == SelectSeq([i \in 1..Len(descs) |->
                     IF \E j \in 1..(i - 1) : descs[j] = descs[i] THEN None ELSE descs[i]],
                     IsTruthy)
    IN  SortedVals([i \in 1..Len(first) |-> [key |-> <<Lower(first[i])>>, val |-> first[i]]])

\* descs = [r[0] for r in rows if r[0]]; sorted(descs, key=str.lower)
fetch_nationalities(rows) ==
    LET descs == SelectSeq(rows, IsTruthy)
    IN  SortedVals([i \in 1..Len(descs) |-> [key |-> <<Lower(descs[i])>>, val |-> descs[i]]])

(***************************************************************************)
(* get_classifications                                                     *)
(***************************************************************************)
classifier_join(st, obj_id) ==
    LET links == SelectSeq(st.objects_classifiers, LAMBDA r : r.obj_id = obj_id)
    IN  [i \in 1..Len(links) |-> st.classifiers[links[i].cls_id]]

classifier_rows(st, obj_id) == RowOrders(classifier_join(st, obj_id))

get_classifications(rows) ==
    LET classifiers == SelectSeq(rows, IsTruthy)
        classifiers_sorted ==
            SortedVals([i \in 1..Len(classifiers) |->
                [key |-> <<Lower(classifiers[i])>>, val |-> classifiers[i]]])
    IN  JoinLines(classifiers_sorted)

(***************************************************************************)
(* get_producers                                                           *)
(***************************************************************************)
production_join(st, obj_id) ==
    LET prods == SelectSeq(st.productions, LAMBDA r : r.obj_id = obj_id)
    IN  [i \in 1..Len(prods) |->
            [name |-> st.agents[prods[i].agt_id].name,
             part |-> prods[i].part,
             begin_date |-> st.agents[prods[i].agt_id].begin_date,
             end_date |-> st.agents[prods[i].agt_id].end_date,
             agt_id |-> prods[i].agt_id]]

\* ORDER BY agents.name ASC, productions.part ASC: rows that tie come in any order
production_order(r1, r2) ==
    ~ (\/ SqlLess(r2.name, r1.name)
       \/ (r2.name = r1.name /\ SqlLess(r2.part, r1.part)))

production_rows(st, obj_id) ==
    {rows \in RowOrders(production_join(st, obj_id)) :
        \A i \in 1..(Len(rows) - 1) : production_order(rows[i], rows[i + 1])}

\* key=lambda x: (x[1].lower(), x[0].lower(), x[2].lower()) on (part, name, nat_str, timespan)
\* a plausible slip: the key compares the raw strings
producer_key_raw(x) == <<x[2], x[1], x[3]>>

producer_key(x) == <<Lower(x[2]), Lower(x[1]), Lower(x[3])>>

\* rows: the production rows; natRows[i]: the rows fetch_nationalities gets for rows[i]
get_producers(rows, natRows) ==
    LET data == [i \in 1..Len(rows) |->
                    <<IF IsTruthy(rows[i].part) THEN rows[i].part ELSE <<>>,
                      rows[i].name,
                      JoinLines(fetch_nationalities(natRows[i])),
                      build_timespan_str(rows[i].begin_date, rows[i].end_date)>>]
    IN  SortedVals([i \in 1..Len(data) |-> [key |-> producer_key(data[i]), val |-> data[i]]])

\* the inner query results get_producers may see for the given production rows
nat_rows_for(st, rows) ==
    {nr \in [1..Len(rows) -> UNION {nationality_rows(st, rows[i].agt_id) : i \in 1..Len(rows)}
                                \cup {<<>>}] :
        \A i \in 1..Len(rows) : nr[i] \in nationality_rows(st, rows[i].agt_id)}

IdleCall == [fn |-> "idle", arg |-> 0, rows |-> <<>>, natRows |-> <<>>, result |-> <<>>]

MaxDateLen == 5

\* optional date strings: absent, short, exactly a year, longer than a year
DateValues ==
    {None, S0580, S1976, S2001, S2001 \o <<45, 48, 53>>}
        \cup TextsUpTo({48, 49}, MaxDateLen)

TimespanInit ==
    /\ bdate \in DateValues
    /\ edate \in DateValues
    /\ timespan = None
    /\ tsDone = FALSE
    /\ store = EmptyStore
    /\ call = [fn |-> "idle", arg |-> 0, rows |-> <<>>, natRows |-> <<>>, result |-> <<>>]
    /\ client = [pc |-> "off"]
    /\ ServerOff

BuildTimespan ==
    /\ ~tsDone
    /\ timespan' = build_timespan_str(bdate, edate)
    /\ tsDone' = TRUE
    /\ UNCHANGED <<bdate, edate, store, call, client, serverVars>>

TimespanNext == BuildTimespan

SpecTimespan == TimespanInit /\ [][TimespanNext]_vars

(***************************************************************************)
(* C7                                                                      *)
(***************************************************************************)
YearToken(s) == IF s = None \/ Len(s) < 4 THEN None ELSE <<s[1], s[2], s[3], s[4]>>
Rendered(tok) == IF tok[1] = 48 THEN <<45, tok[1], tok[2], tok[3], tok[4]>> ELSE tok

\* C7: build_timespan_str is total; each date of length >= 4 yields its first
\* four characters as year token, a token starting with '0' is rendered with a
\* '-' prefix; both tokens give "{begin} - {end}" (en dash, one space each
\* side), only begin "{begin}-" (trailing en dash), only end "{end}" with no
\* dash, neither the empty string.
C7_TimespanFormat ==
    tsDone =>
        LET bt == YearToken(bdate)
            et == YearToken(edate)
        IN  /\ timespan # None
            /\ (bt # None /\ et # None) =>
                   timespan = Rendered(bt) \o <<32, 8211, 32>> \o Rendered(et)
            /\ (bt # None /\ et = None) => timespan = Rendered(bt) \o <<8211>>
            /\ (bt = None /\ et # None) => timespan = Rendered(et)
            /\ (bt = None /\ et = None) => timespan = <<>>
            /\ (bdate = S0580 /\ edate = None) => timespan = <<45, 48, 53, 56, 48, 8211>>
            /\ (bdate = S1976 /\ edate = None) => timespan = <<49, 57, 55, 54, 8211>>
            /\ (bdate = None /\ edate = S2001) => timespan = S2001

C7_Witness ==
    /\ tsDone
    /\ bdate = None
    /\ edate = S2001 \o <<45, 48, 53>>
    /\ timespan = S2001

(***************************************************************************)
(* The resolvers, each called once on a store                              *)
(***************************************************************************)
MaxProductions == 2
MaxNatLinks == 3
MaxClsLinks == 3

PartValues == {None, <<112>>, <<80>>}

\* stores that differ in the productions of object 1
ProducerStores ==
    {[EmptyStore EXCEPT !.productions = prods, !.agents_nationalities = links] :
        prods \in SeqsUpTo({[obj_id |-> 1, agt_id |-> a, part |-> pt] :
                               a \in 1..Len(AgentsTable), pt \in PartValues},
                           MaxProductions),
        links \in {<<>>,
                   <<[agt_id |-> 1, nat_id |-> 2], [agt_id |-> 1, nat_id |-> 1],
                     [agt_id |-> 3, nat_id |-> 1]>>}}

\* stores that differ in the nationalities linked to agent 1
NationalityStores ==
    {[EmptyStore EXCEPT !.agents_nationalities = links] :
        links \in SeqsUpTo({[agt_id |-> 1, nat_id |-> n] :
                               n \in 1..Len(NationalitiesTable)}, MaxNatLinks)}

\* stores that differ in the classifiers linked to object 1
ClassifierStores ==
    {[EmptyStore EXCEPT !.objects_classifiers = links] :
        links \in SeqsUpTo({[obj_id |-> 1, cls_id |-> c] :
                               c \in 1..Len(ClassifiersTable)}, MaxClsLinks)}

ResolveInit ==
    /\ store \in ProducerStores \cup NationalityStores \cup ClassifierStores
    /\ call = IdleCall
    /\ bdate = None /\ edate = None /\ timespan = None /\ tsDone = FALSE
    /\ client = [pc |-> "off"]
    /\ ServerOff

FetchNationalities ==
    /\ call.fn = "idle"
    /\ \E agt_id \in 1..Len(store.agents) :
       \E rows \in nationality_rows(store, agt_id) :
          call' = [fn |-> "fetch_nationalities", arg |-> agt_id, rows |-> rows,
                   natRows |-> <<>>, result |-> fetch_nationalities(rows)]
    /\ UNCHANGED <<store, tsVars, client, serverVars>>

GetClassifications ==
    /\ call.fn = "idle"
    /\ \E obj_id \in 1..2 :
       \E rows \in classifier_rows(store, obj_id) :
          call' = [fn |-> "get_classifications", arg |-> obj_id, rows |-> rows,
                   natRows |-> <<>>, result |-> get_classifications(rows)]
    /\ UNCHANGED <<store, tsVars, client, serverVars>>

GetProducers ==
    /\ call.fn = "idle"
    /\ \E obj_id \in 1..2 :
       \E rows \in production_rows(store, obj_id) :
       \E natRows \in nat_rows_for(store, rows) :
          call' = [fn |-> "get_producers", arg |-> obj_id, rows |-> rows,
                   natRows |-> natRows, result |-> get_producers(rows, natRows)]
    /\ UNCHANGED <<store, tsVars, client, serverVars>>

ResolveNext == FetchNationalities \/ GetClassifications \/ GetProducers

SpecResolve == ResolveInit /\ [][ResolveNext]_vars

(***************************************************************************)
(* C6                                                                      *)
(***************************************************************************)
CompositeKey(rec) == <<Lower(rec[2]), Lower(rec[1]), Lower(rec[3])>>
KeysOf(recs) == [i \in 1..Len(recs) |-> CompositeKey(recs[i])]

\* C6: the produced_by sequence get_producers returns has one record per
\* production row, an absent part being the empty string, and is
\* non-descending under (lower(name), lower(part), lower(nationalities));
\* the sequence of keys is the same for every order of the same rows.
C6_ProducersSorted ==
    call.fn = "get_producers" =>
        LET out == call.result
            paired == [i \in 1..Len(call.rows) |->
                          [row |-> call.rows[i], nat |-> call.natRows[i]]]
        IN  /\ Len(out) = Len(call.rows)
            /\ \A i \in 1..Len(out) : out[i][1] # None
            /\ \A i \in 1..(Len(out) - 1) :
                   TupleLeq(CompositeKey(out[i]), CompositeKey(out[i + 1]))
            /\ \A other \in RowOrders(paired) :
                   KeysOf(get_producers([i \in 1..Len(other) |-> other[i].row],
                                        [i \in 1..Len(other) |-> other[i].nat]))
                       = KeysOf(out)

\* the store returns Zed before ann (BINARY order); produced_by has ann first
C6_Witness ==
    /\ call.fn = "get_producers"
    /\ Len(call.rows) = 2
    /\ call.rows[1].name = Zed /\ call.rows[2].name = ann
    /\ call.rows[1].part = None
    /\ call.result[1][2] = ann /\ call.result[2][2] = Zed
    /\ call.result[2][1] = <<>>

(***************************************************************************)
(* C9                                                                      *)
(***************************************************************************)
Count(seq, v) == Cardinality({i \in 1..Len(seq) : seq[i] = v})
NonEmptyCount(seq) == Cardinality({i \in 1..Len(seq) : seq[i] # None /\ seq[i] # <<>>})
SortedCaseInsensitive(seq) ==
    \A i \in 1..(Len(seq) - 1) : StrLeq(Lower(seq[i]), Lower(seq[i + 1]))

\* C9: fetch_nationalities returns the linked descriptors without the null
\* and empty ones, sorted ascending case-insensitively, each as often as it
\* is linked; get_classifications returns the newline-join of the non-empty
\* linked classifier names sorted the same way, repeated names kept, and
\* the empty string when there is none.
C9_NoDedupSorted ==
    /\ call.fn = "fetch_nationalities" =>
          /\ SortedCaseInsensitive(call.result)
          /\ Len(call.result) = NonEmptyCount(call.rows)
          /\ \A i \in 1..Len(call.result) :
                 call.result[i] # None /\ call.result[i] # <<>>
          /\ \A i \in 1..Len(call.rows) :
                 (call.rows[i] # None /\ call.rows[i] # <<>>) =>
                     Count(call.result, call.rows[i]) = Count(call.rows, call.rows[i])
    /\ call.fn = "get_classifications" =>
          /\ NonEmptyCount(call.rows) = 0 => call.result = <<>>
          /\ \E names \in RowOrders(call.rows) :
                LET kept == SubSeq(names, 1, NonEmptyCount(call.rows))
                IN  /\ \A i \in 1..Len(kept) : kept[i] # None /\ kept[i] # <<>>
                    /\ SortedCaseInsensitive(kept)
                    /\ call.result = JoinLines(kept)

\* agent 1 is linked to french, NULL and french again: two entries come back
C9_Witness ==
    /\ call.fn = "fetch_nationalities"
    /\ Len(call.rows) = 3
    /\ Count(call.rows, french) = 2
    /\ Count(call.rows, None) = 1
    /\ call.result = <<french, french>>

(***************************************************************************)
(* Python values and JSON                                                  *)
(*                                                                         *)
(* A Python value is [t, v] with t one of str, none, int, list, tuple,     *)
(* dict; a JSON document is [j, v] with j one of string, null, number,     *)
(* array, object.  json.dumps writes list and tuple alike as an array;     *)
(* json.loads reads an array as a list and an object as a dict.            *)
(***************************************************************************)
PyStr(s) == [t |-> "str", v |-> s]
PyNone == [t |-> "none", v |-> <<>>]
PyInt(n) == [t |-> "int", v |-> <<n>>]
PyList(l) == [t |-> "list", v |-> l]
PyTuple(l) == [t |-> "tuple", v |-> l]
PyDict(f) == [t |-> "dict", v |-> f]

\* a store value (text or NULL) as the Python value sqlite3 returns
FromSql(x) == IF x = None THEN PyNone ELSE PyStr(x)

RECURSIVE json_dumps(_)
json_dumps(x) ==
    CASE x.t = "str" -> [j |-> "string", v |-> x.v]
      [] x.t = "none" -> [j |-> "null", v |-> <<>>]
      [] x.t = "int" -> [j |-> "number", v |-> x.v]
      [] x.t \in {"list", "tuple"} ->
            [j |-> "array", v |-> [i \in 1..Len(x.v) |-> json_dumps(x.v[i])]]
      [] x.t = "dict" ->
            [j |-> "object", v |-> [k \in DOMAIN x.v |-> json_dumps(x.v[k])]]

RECURSIVE json_loads(_)
json_loads(d) ==
    CASE d.j = "string" -> PyStr(d.v)
      [] d.j = "null" -> PyNone
      [] d.j = "number" -> [t |-> "int", v |-> d.v]
      [] d.j = "array" -> PyList([i \in 1..Len(d.v) |-> json_loads(d.v[i])])
      [] d.j = "object" -> PyDict([k \in DOMAIN d.v |-> json_loads(d.v[k])])

\* The bytes of one message: enc says whether they are UTF-8 and JSON text;
\* doc is the document they spell when they are.
JsonBytes(doc) == [enc |-> "json", doc |-> doc]
UnreadBytes == [enc |-> "unread", doc |-> [j |-> "null", v |-> <<>>]]
EmptyBytes == [enc |-> "empty", doc |-> [j |-> "null", v |-> <<>>]]
BadUtf8Bytes == [enc |-> "bad_utf8", doc |-> [j |-> "null", v |-> <<>>]]
NotJsonBytes == [enc |-> "not_json", doc |-> [j |-> "null", v |-> <<>>]]

\* json.dumps(response).encode("utf-8")
encode_response(response) == JsonBytes(json_dumps(response))

\* json.loads(data.decode("utf-8")): raises on anything but UTF-8 JSON text
decode_bytes(data) ==
    IF data.enc = "json"
    THEN [raised |-> FALSE, value |-> json_loads(data.doc)]
    ELSE [raised |-> TRUE, value |-> PyNone]

\* bool(x)
PyTruthy(x) ==
    CASE x.t = "none" -> FALSE
      [] x.t = "int" -> x.v # <<0>>
      [] x.t = "dict" -> DOMAIN x.v # {}
      [] OTHER -> x.v # <<>>

\* a plausible slip: each producer is sent as a keyed record
search_result_keyed(obj_id, label, date, produced_by, classified_as) ==
    PyDict([k \in {"id", "label", "date", "produced_by", "classified_as"} |->
        CASE k = "id" -> PyInt(obj_id)
          [] k = "label" -> FromSql(label)
          [] k = "date" -> FromSql(date)
          [] k = "produced_by" ->
                PyList([i \in 1..Len(produced_by) |->
                    PyDict([f \in {"part", "name", "nationalities", "timespan"} |->
                        PyStr(produced_by[i][CASE f = "part" -> 1 [] f = "name" -> 2
                                               [] f = "nationalities" -> 3
                                               [] f = "timespan" -> 4])])])
          [] k = "classified_as" -> PyStr(classified_as)])

\* the dict literal of fetch_filtered_objects
search_result(obj_id, label, date, produced_by, classified_as) ==
    PyDict([k \in {"id", "label", "date", "produced_by", "classified_as"} |->
        CASE k = "id" -> PyInt(obj_id)
          [] k = "label" -> FromSql(label)
          [] k = "date" -> FromSql(date)
          [] k = "produced_by" ->
                PyList([i \in 1..Len(produced_by) |->
                    PyTuple([n \in 1..4 |-> PyStr(produced_by[i][n])])])
          [] k = "classified_as" -> PyStr(classified_as)])

results_response(results) == PyDict([k \in {"results"} |-> PyList(results)])
error_response(msg) == PyDict([k \in {"error"} |-> PyStr(msg)])

InvalidJsonMsg == <<73, 110, 118, 97, 108, 105, 100, 32, 74, 83, 79, 78>>

(***************************************************************************)
(* fetch_filtered_objects                                                  *)
(***************************************************************************)
RowCap == 1000

\* SQLite's LIKE on texts: '%' is any run of characters, '_' any one
\* character, letters match without regard to case; there is no ESCAPE
RECURSIVE like_match(_, _)
like_match(pat, txt) ==
    IF pat = <<>> THEN txt = <<>>
    ELSE IF Head(pat) = 37
         THEN like_match(Tail(pat), txt) \/ (txt # <<>> /\ like_match(pat, Tail(txt)))
    ELSE IF txt = <<>> THEN FALSE
    ELSE IF Head(pat) = 95 THEN like_match(Tail(pat), Tail(txt))
    ELSE LowerChar(Head(pat)) = LowerChar(Head(txt)) /\ like_match(Tail(pat), Tail(txt))

\* value LIKE ?  (NULL LIKE ? is NULL, which WHERE takes as false)
sql_like(value, pattern) == value # None /\ like_match(pattern, value)

\* if filters.get(k):
filter_given(filters, k) == k \in DOMAIN filters.v /\ PyTruthy(filters.v[k])

\* f"%{filters[k]}%"
filter_param(filters, k) == <<37>> \o filters.v[k].v \o <<37>>

\* the WHERE clause built in lines 117-146
object_selected(st, o, filters) ==
    /\ filter_given(filters, "date") => sql_like(o.date, filter_param(filters, "date"))
    /\ filter_given(filters, "agent") =>
           \E i \in 1..Len(st.productions) :
               /\ st.productions[i].obj_id = o.id
               /\ sql_like(st.agents[st.productions[i].agt_id].name,
                           filter_param(filters, "agent"))
    /\ filter_given(filters, "classifier") =>
           \E i \in 1..Len(st.objects_classifiers) :
               /\ st.objects_classifiers[i].obj_id = o.id
               /\ sql_like(st.classifiers[st.objects_classifiers[i].cls_id],
                           filter_param(filters, "classifier"))
    /\ filter_given(filters, "label") => sql_like(o.label, filter_param(filters, "label"))

\* ORDER BY objects.label ASC, objects.date ASC
object_order(r1, r2) ==
    ~ (\/ SqlLess(r2.label, r1.label)
       \/ (r2.label = r1.label /\ SqlLess(r2.date, r1.date)))

\* a plausible slip: no ORDER BY, the rows come in any order
object_rows_unordered(st, filters) ==
    LET sel == SelectSeq(st.objects, LAMBDA o : object_selected(st, o, filters))
    IN  {SubSeq(rows, 1, IF Len(rows) > RowCap THEN RowCap ELSE Len(rows)) :
            rows \in RowOrders(sel)}

\* cursor.execute(query, params); cursor.fetchall(): the selected rows in
\* the ORDER BY order (ties in any order), LIMIT 1000
object_rows(st, filters) ==
    LET sel == SelectSeq(st.objects, LAMBDA o : object_selected(st, o, filters))
        ordered == {rows \in RowOrders(sel) :
                       \A i \in 1..(Len(rows) - 1) : object_order(rows[i], rows[i + 1])}
    IN  {SubSeq(rows, 1, IF Len(rows) > RowCap THEN RowCap ELSE Len(rows)) :
            rows \in ordered}

\* what the queries of get_producers and get_classifications may return for one object
inner_rows(st, obj_id) ==
    UNION {{[prod |-> pr, nat |-> nr, cls |-> cr] :
               nr \in nat_rows_for(st, pr), cr \in classifier_rows(st, obj_id)} :
           pr \in production_rows(st, obj_id)}

inner_rows_for(st, rows) ==
    {f \in [1..Len(rows) -> UNION {inner_rows(st, rows[i].id) : i \in 1..Len(rows)}] :
        \A i \in 1..Len(rows) : f[i] \in inner_rows(st, rows[i].id)}

\* lines 150-162: one search_result per row, in row order
fetch_filtered_objects(rows, inner) ==
    [i \in 1..Len(rows) |->
        search_result(rows[i].id, rows[i].label, rows[i].date,
                      get_producers(inner[i].prod, inner[i].nat),
                      get_classifications(inner[i].cls))]

(***************************************************************************)
(* fetch_filtered_objects called once with a filter record                 *)
(***************************************************************************)
MaxFilterObjects == 2

Text_a == <<97>>
Text_B == <<66>>
Text_ab == <<97, 98>>
Text_Ba == <<66, 97>>
Text_19 == <<49, 57>>
Percent == <<37>>
Underscore == <<95>>

WithIds(objs) == [i \in 1..Len(objs) |-> [id |-> i, label |-> objs[i].label, date |-> objs[i].date]]

\* object 1 is produced by Zed and ann and classified as Bowl and Art, object 2 by Ann
LinkedStore ==
    [EmptyStore EXCEPT
        !.productions = <<[obj_id |-> 1, agt_id |-> 1, part |-> <<112>>],
                          [obj_id |-> 1, agt_id |-> 3, part |-> None],
                          [obj_id |-> 2, agt_id |-> 2, part |-> <<80>>]>>,
        !.agents_nationalities = <<[agt_id |-> 1, nat_id |-> 1]>>,
        !.objects_classifiers = <<[obj_id |-> 1, cls_id |-> 3],
                                  [obj_id |-> 1, cls_id |-> 1]>>]

FilterStores ==
    {[base EXCEPT !.objects = WithIds(objs)] :
        base \in {EmptyStore, LinkedStore},
        objs \in SeqsUpTo({[label |-> l, date |-> d] :
                              l \in {Text_ab, Text_Ba, Underscore, None},
                              d \in {Text_19, None}}, MaxFilterObjects)}

FilterKeys == {"label", "date", "agent", "classifier"}

\* the filter records: each field absent, empty or a text
FilterRecords ==
    {PyDict([k \in keys |-> PyStr(IF k = "label" THEN l ELSE IF k = "date" THEN d
                                   ELSE IF k = "agent" THEN a ELSE c)]) :
        keys \in SUBSET FilterKeys,
        l \in {<<>>, Text_a, Text_B, Text_ab, Percent, Underscore},
        d \in {<<57>>, Underscore},
        a \in {<<>>, <<69>>, Percent},
        c \in {<<82>>, Underscore}}

FilterInit ==
    /\ store \in FilterStores
    /\ call = IdleCall
    /\ bdate = None /\ edate = None /\ timespan = None /\ tsDone = FALSE
    /\ client = [pc |-> "off"]
    /\ ServerOff

FetchFilteredObjects ==
    /\ call.fn = "idle"
    /\ \E filters \in FilterRecords :
       \E rows \in object_rows(store, filters) :
       \E inner \in inner_rows_for(store, rows) :
          call' = [fn |-> "fetch_filtered_objects", arg |-> filters, rows |-> rows,
                   natRows |-> <<>>, result |-> fetch_filtered_objects(rows, inner)]
    /\ UNCHANGED <<store, tsVars, client, serverVars>>

FilterNext == FetchFilteredObjects

SpecFilter == FilterInit /\ [][FilterNext]_vars

(***************************************************************************)
(* C5                                                                      *)
(***************************************************************************)
\* f occurs in txt as a literal substring, letters compared without case
ContainsNoCase(txt, f) ==
    /\ txt # None
    /\ \E i \in 1..(Len(txt) - Len(f) + 1) :
           Lower(SubSeq(txt, i, i + Len(f) - 1)) = Lower(f)

FieldText(filters, k) == IF k \in DOMAIN filters.v THEN filters.v[k].v ELSE <<>>

ShouldMatch(st, o, filters) ==
    /\ FieldText(filters, "label") # <<>> =>
           ContainsNoCase(o.label, FieldText(filters, "label"))
    /\ FieldText(filters, "date") # <<>> =>
           ContainsNoCase(o.date, FieldText(filters, "date"))
    /\ FieldText(filters, "agent") # <<>> =>
           \E i \in 1..Len(st.productions) :
               /\ st.productions[i].obj_id = o.id
               /\ ContainsNoCase(st.agents[st.productions[i].agt_id].name,
                                 FieldText(filters, "agent"))
    /\ FieldText(filters, "classifier") # <<>> =>
           \E i \in 1..Len(st.objects_classifiers) :
               /\ st.objects_classifiers[i].obj_id = o.id
               /\ ContainsNoCase(st.classifiers[st.objects_classifiers[i].cls_id],
                                 FieldText(filters, "classifier"))

\* C5: fetch_filtered_objects returns exactly the objects for which every
\* non-empty filter field is a case-insensitive literal substring of the
\* corresponding attribute, also for filter text containing '%' or '_'.
C5_LiteralSubstring ==
    call.fn = "fetch_filtered_objects" =>
        {call.result[i].v["id"].v[1] : i \in 1..Len(call.result)}
            = {store.objects[n].id : n \in {m \in 1..Len(store.objects) :
                                              ShouldMatch(store, store.objects[m], call.arg)}}

(***************************************************************************)
(* The listening process: main and handle_client                           *)
(*                                                                         *)
(* conn.state is the connection's state in the terms of the protocol       *)
(* (AWAIT_REQUEST, PROCESS, RESPOND, CLOSED), conn.path the states it went *)
(* through, conn.pc the place handle_client is at, conn.written the        *)
(* payloads written to the peer, conn.db the store handle of               *)
(* fetch_filtered_objects, conn.fault the exception that ended the         *)
(* handling, if one did.                                                   *)
(***************************************************************************)
MaxConnections == 2
MaxObjects == 2

ServerStores ==
    {[base EXCEPT !.objects = WithIds(objs)] :
        base \in {EmptyStore, LinkedStore},
        objs \in SeqsUpTo({[label |-> l, date |-> d] :
                              l \in {amphora, BlueVase, None},
                              d \in {S1976, None}}, MaxObjects)}

client_filters(label, classifier, agent, date) ==
    PyDict([k \in FilterKeys |->
        PyStr(CASE k = "label" -> label [] k = "classifier" -> classifier
                [] k = "agent" -> agent [] k = "date" -> date)])

\* what a peer may send before it half-closes
RequestBytes ==
    <<EmptyBytes, BadUtf8Bytes, NotJsonBytes,
      JsonBytes(json_dumps(PyDict([k \in {} |-> PyNone]))),
      JsonBytes(json_dumps(client_filters(<<>>, <<>>, <<>>, <<>>))),
      JsonBytes(json_dumps(client_filters(Text_a, <<>>, <<>>, <<>>))),
      JsonBytes(json_dumps(client_filters(<<>>, <<>>, <<110>>, <<>>))),
      JsonBytes(json_dumps(PyList(<<>>))),
      JsonBytes(json_dumps(PyNone))>>

NoConnection ==
    [state |-> "NONE", pc |-> "none", path |-> <<>>, data |-> UnreadBytes,
     request |-> PyNone, response |-> PyNone, written |-> <<>>,
     db |-> "unopened", queried |-> FALSE, fault |-> "none"]

\* an exception leaves handle_client: "with conn" closes the connection
raised(c, fault) ==
    [c EXCEPT !.state = "CLOSED", !.pc = "none", !.fault = fault,
              !.path = Append(@, "CLOSED")]

\* a plausible slip: no return after the error payload is sent, the handler
\* goes on to query the store
decoded_no_return(c) ==
    LET r == decode_bytes(c.data)
    IN  IF r.raised
        THEN [c EXCEPT !.written = Append(@, encode_response(error_response(InvalidJsonMsg))),
                       !.state = "PROCESS", !.path = Append(@, "PROCESS"), !.pc = "connect"]
        ELSE [c EXCEPT !.request = r.value, !.state = "PROCESS",
                       !.path = Append(@, "PROCESS"), !.pc = "connect"]

\* lines 175-180: try json.loads(data.decode("utf-8")); on any exception the
\* response is {"error": "Invalid JSON: ..."}
decoded(c) ==
    LET r == decode_bytes(c.data)
    IN  IF r.raised
        THEN [c EXCEPT !.response = error_response(InvalidJsonMsg),
                       !.state = "RESPOND", !.path = Append(@, "RESPOND"), !.pc = "send"]
        ELSE [c EXCEPT !.request = r.value, !.state = "PROCESS",
                       !.path = Append(@, "PROCESS"), !.pc = "connect"]

ServerInit ==
    /\ store \in ServerStores
    /\ server = [listener |-> "listening", interrupted |-> FALSE, accepted |-> 0,
                 stderr |-> ""]
    /\ conn = NoConnection
    /\ call = IdleCall
    /\ bdate = None /\ edate = None /\ timespan = None /\ tsDone = FALSE
    /\ client = [pc |-> "off"]

\* line 202: sock.accept()
Accept ==
    /\ server.listener = "listening"
    /\ conn.state \in {"NONE", "CLOSED"}
    /\ server.accepted < MaxConnections
    /\ server' = [server EXCEPT !.accepted = @ + 1]
    /\ conn' = [NoConnection EXCEPT !.state = "AWAIT_REQUEST", !.pc = "recv",
                                    !.path = <<"AWAIT_REQUEST">>]
    /\ UNCHANGED <<store, call, tsVars, client>>

\* lines 169-174: recv until the peer half-closes; a reset connection raises
Receive ==
    /\ server.listener = "listening"
    /\ conn.pc = "recv"
    /\ \/ /\ \E i \in 1..Len(RequestBytes) :
                conn' = [conn EXCEPT !.data = RequestBytes[i], !.pc = "decode"]
          /\ UNCHANGED server
       \/ /\ conn' = raised(conn, "recv")
          /\ server' = [server EXCEPT !.stderr = "Error handling request"]
    /\ UNCHANGED <<store, call, tsVars, client>>

\* lines 175-180
DecodeRequest ==
    /\ server.listener = "listening"
    /\ conn.pc = "decode"
    /\ conn' = decoded(conn)
    /\ UNCHANGED <<server, store, call, tsVars, client>>

\* line 115, connect_database (lines 10-16): sqlite3.connect either returns a
\* handle or raises sqlite3.Error, and then sys.exit(1) raises SystemExit,
\* which "except Exception" in main does not catch
ConnectDatabase ==
    /\ server.listener = "listening"
    /\ conn.pc = "connect"
    /\ \/ /\ conn' = [conn EXCEPT !.db = "open", !.pc = "fetch"]
          /\ UNCHANGED server
       \/ /\ conn' = raised(conn, "db_open")
          /\ server' = [server EXCEPT !.listener = "exited", !.stderr = "Database error"]
    /\ UNCHANGED <<store, call, tsVars, client>>

\* lines 116-162: filters.get raises AttributeError when the request is no
\* dict; cursor.execute may raise sqlite3.Error; otherwise the rows are
\* assembled and the handle is closed
FetchObjects ==
    /\ server.listener = "listening"
    /\ conn.pc = "fetch"
    /\ \/ /\ conn.request.t # "dict"
          /\ conn' = raised(conn, "not_object")
          /\ server' = [server EXCEPT !.stderr = "Error handling request"]
       \/ /\ conn.request.t = "dict"
          /\ conn' = raised([conn EXCEPT !.queried = TRUE], "query")
          /\ server' = [server EXCEPT !.stderr = "Error handling request"]
       \/ /\ conn.request.t = "dict"
          /\ \E rows \in object_rows(store, conn.request) :
             \E inner \in inner_rows_for(store, rows) :
                conn' = [conn EXCEPT
                            !.queried = TRUE, !.db = "closed",
                            !.response = results_response(fetch_filtered_objects(rows, inner)),
                            !.state = "RESPOND", !.path = Append(@, "RESPOND"),
                            !.pc = "send"]
          /\ UNCHANGED server
    /\ UNCHANGED <<store, call, tsVars, client>>

\* lines 179-180 and 183: sendall, then handle_client returns and
\* "with conn" closes the connection
SendResponse ==
    /\ server.listener = "listening"
    /\ conn.pc = "send"
    /\ \/ /\ conn' = [conn EXCEPT !.written = Append(@, encode_response(conn.response)),
                                  !.state = "CLOSED", !.path = Append(@, "CLOSED"),
                                  !.pc = "none"]
          /\ UNCHANGED server
       \/ /\ conn' = raised(conn, "send")
          /\ server' = [server EXCEPT !.stderr = "Error handling request"]
    /\ UNCHANGED <<store, call, tsVars, client>>

\* lines 205-207 and 210: KeyboardInterrupt, in accept or in the handler
Interrupt ==
    /\ server.listener = "listening"
    /\ server' = [server EXCEPT !.listener = "closed", !.interrupted = TRUE]
    /\ conn' = IF conn.state \in {"NONE", "CLOSED"} THEN conn ELSE raised(conn, "interrupt")
    /\ UNCHANGED <<store, call, tsVars, client>>

Next ==
    \/ Accept
    \/ Receive
    \/ DecodeRequest
    \/ ConnectDatabase
    \/ FetchObjects
    \/ SendResponse
    \/ Interrupt

Spec == ServerInit /\ [][Next]_vars

(***************************************************************************)
(* What the peer of a connection reads                                     *)
(***************************************************************************)
\* the payloads written on the connection, each decoded as the peer decodes it
Received == [i \in 1..Len(conn.written) |-> decode_bytes(conn.written[i]).value]

\* the results arrays among them
ResultArrays ==
    LET idx == {i \in 1..Len(Received) :
                   Received[i].t = "dict" /\ "results" \in DOMAIN Received[i].v}
    IN  {Received[i].v["results"].v : i \in idx}

ToSql(pv) == IF pv.t = "none" THEN None ELSE pv.v

Malformed == conn.data.enc \in {"empty", "bad_utf8", "not_json"}

C2_ExactlyOneResponse ==
    (conn.state = "CLOSED" /\ conn.fault \in {"none", "not_object", "query"}) =>
        Len(conn.written) = 1

(***************************************************************************)
(* C3                                                                      *)
(***************************************************************************)
\* C3: a connection whose request cannot be decoded goes from AWAIT_REQUEST
\* to RESPOND and then CLOSED, never through PROCESS; no store handle is
\* opened and no query run for it; the only payload written on it has the
\* single key "error"; and it is written unless the send itself fails or
\* the operator interrupts.
C3_MalformedGetsError ==
    Malformed =>
        /\ conn.db = "unopened" /\ ~conn.queried
        /\ \A i \in 1..Len(conn.path) : conn.path[i] # "PROCESS"
        /\ conn.pc = "send" => conn.path = <<"AWAIT_REQUEST", "RESPOND">>
        /\ Len(conn.written) <= 1
        /\ \A i \in 1..Len(Received) :
               Received[i].t = "dict" /\ DOMAIN Received[i].v = {"error"}
        /\ (conn.state = "CLOSED" /\ conn.fault = "none") =>
               /\ Len(conn.written) = 1
               /\ conn.path = <<"AWAIT_REQUEST", "RESPOND", "CLOSED">>

C3_Witness ==
    /\ conn.data.enc = "empty"
    /\ conn.state = "CLOSED" /\ conn.fault = "none"
    /\ Len(conn.written) = 1
    /\ server.listener = "listening"

(***************************************************************************)
(* C4                                                                      *)
(***************************************************************************)
\* C4 as stated: the accept loop ends only by an operator interrupt.
C4_OnlyInterruptStops == server.listener # "listening" => server.interrupted

(***************************************************************************)
(* C8                                                                      *)
(***************************************************************************)
ResultKeys == {"id", "label", "date", "produced_by", "classified_as"}
ProducerKeys == {"part", "name", "nationalities", "timespan"}

MaxQueries == 3

Spaces(n) == [i \in 1..n |-> 32]
\* s[:n].ljust(n)
clip(s, n) == IF Len(s) >= n THEN SubSeq(s, 1, n) ELSE s \o Spaces(n - Len(s))

header ==
    clip(<<76, 97, 98, 101, 108>>, 30) \o clip(<<68, 97, 116, 101>>, 15)
        \o clip(<<80, 114, 111, 100, 117, 99, 101, 100, 32, 66, 121>>, 40)
        \o clip(<<67, 108, 97, 115, 115, 105, 102, 105, 101, 100, 32, 65, 115>>, 30)

\* (res.get(k) or "")[:n].ljust(n): raises when the value is truthy and no str
field_raises(res, k) ==
    k \in DOMAIN res.v /\ PyTruthy(res.v[k]) /\ res.v[k].t # "str"

field_text(res, k, n) ==
    IF k \in DOMAIN res.v /\ PyTruthy(res.v[k]) THEN clip(res.v[k].v, n) ELSE Spaces(n)

row_raises(res) ==
    \/ res.t # "dict"
    \/ \E k \in {"label", "date", "produced_by", "classified_as"} : field_raises(res, k)

row_line(res) ==
    field_text(res, "label", 30) \o field_text(res, "date", 15)
        \o field_text(res, "produced_by", 40) \o field_text(res, "classified_as", 30)

\* the for loop over results: the rows added until a row raises
RECURSIVE add_rows(_)
add_rows(results) ==
    IF results = <<>> THEN [lines |-> <<>>, raised |-> FALSE]
    ELSE IF row_raises(results[1]) THEN [lines |-> <<>>, raised |-> TRUE]
    ELSE LET rest == add_rows(Tail(results))
         IN  [lines |-> <<row_line(results[1])>> \o rest.lines, raised |-> rest.raised]

\* key=lambda r: r.get("label", "").lower(): raises unless every label is a str
sort_raises(results) ==
    \E i \in 1..Len(results) :
        \/ results[i].t # "dict"
        \/ ("label" \in DOMAIN results[i].v /\ results[i].v["label"].t # "str")

label_key(r) == IF "label" \in DOMAIN r.v THEN Lower(r.v["label"].v) ELSE <<>>

sort_results(results) ==
    SortedVals([i \in 1..Len(results) |-> [key |-> <<label_key(results[i])>>, val |-> results[i]]])

\* lines 100-121, after a response was decoded: what results_list holds and
\* how submit_query ends
render(response) ==
    IF response.t \notin {"dict", "list", "tuple", "str"}
    THEN [list |-> <<>>, last |-> "raised"]           \* "error" in response
    ELSE IF response.t = "dict" /\ "error" \in DOMAIN response.v
    THEN [list |-> <<>>, last |-> "server_error"]
    ELSE IF response.t # "dict"
    THEN [list |-> <<>>, last |-> "raised"]           \* response.get
    ELSE LET results == IF "results" \in DOMAIN response.v
                        THEN response.v["results"] ELSE PyList(<<>>)
         IN  IF results.t # "list" \/ sort_raises(results.v)
             THEN [list |-> <<>>, last |-> "raised"]  \* results.sort
             ELSE LET rows == add_rows(sort_results(results.v))
                  IN  [list |-> <<header, [i \in 1..Len(header) |-> 45]>> \o rows.lines,
                       last |-> IF rows.raised THEN "raised" ELSE "shown"]

\* a plausible slip: the list is cleared before the failure is reported
submit_failed_cleared(c) ==
    [c EXCEPT !.pc = "ready", !.last = "failed", !.notice = "Error", !.results_list = <<>>]

\* except Exception: QMessageBox.critical(self, "Error", ...); return
submit_failed(c) == [c EXCEPT !.pc = "ready", !.last = "failed", !.notice = "Error"]

\* what a peer may have written before closing
ResponseBytes ==
    <<EmptyBytes, BadUtf8Bytes, NotJsonBytes,
      encode_response(error_response(InvalidJsonMsg)),
      encode_response(results_response(<<>>)),
      encode_response(results_response(
          <<search_result(2, amphora, None, <<>>, <<>>),
            search_result(1, BlueVase, S1976, <<>>, Art)>>)),
      encode_response(results_response(
          <<search_result(1, BlueVase, S1976, <<>>, Art),
            search_result(3, Zed, S2001, <<<<<<>>, Ann, French, S1976>>>>, Art)>>)),
      encode_response(results_response(<<search_result(4, None, None, <<>>, <<>>)>>)),
      encode_response(PyList(<<>>))>>

ClientInit ==
    /\ client = [pc |-> "ready", last |-> "none", results_list |-> <<>>,
                 shown_before |-> <<>>, notice |-> "", data |-> UnreadBytes,
                 response |-> PyNone, queries |-> 0]
    /\ store = EmptyStore
    /\ call = IdleCall
    /\ bdate = None /\ edate = None /\ timespan = None /\ tsDone = FALSE
    /\ ServerOff

\* lines 75-84: the filters are read, the socket is made and connected
Submit ==
    /\ client.pc = "ready"
    /\ client.queries < MaxQueries
    /\ \E connected \in BOOLEAN :
          LET c == [client EXCEPT !.queries = @ + 1, !.shown_before = client.results_list,
                                  !.notice = "", !.last = "none",
                                  !.data = UnreadBytes, !.response = PyNone]
          IN  client' = IF connected THEN [c EXCEPT !.pc = "connected"]
                        ELSE submit_failed(c)
    /\ UNCHANGED <<store, call, tsVars, serverVars>>

\* line 85: s.sendall
SendRequest ==
    /\ client.pc = "connected"
    /\ \E sent \in BOOLEAN :
          client' = IF sent THEN [client EXCEPT !.pc = "sent"] ELSE submit_failed(client)
    /\ UNCHANGED <<store, call, tsVars, serverVars>>

\* lines 87-93: read until EOF
ReadResponse ==
    /\ client.pc = "sent"
    /\ \/ \E i \in 1..Len(ResponseBytes) :
             client' = [client EXCEPT !.pc = "received", !.data = ResponseBytes[i]]
       \/ client' = submit_failed(client)
    /\ UNCHANGED <<store, call, tsVars, serverVars>>

\* lines 94-95: decode("utf-8") and json.loads
DecodeResponse ==
    /\ client.pc = "received"
    /\ LET r == decode_bytes(client.data)
       IN  client' = IF r.raised THEN submit_failed(client)
                     ELSE [client EXCEPT !.pc = "decoded", !.response = r.value]
    /\ UNCHANGED <<store, call, tsVars, serverVars>>

\* lines 100-121
Render ==
    /\ client.pc = "decoded"
    /\ LET r == render(client.response)
       IN  client' = [client EXCEPT !.pc = "ready", !.last = r.last,
                         !.results_list = r.list,
                         !.notice = IF r.last = "server_error" THEN "Server Error" ELSE ""]
    /\ UNCHANGED <<store, call, tsVars, serverVars>>

ClientNext == Submit \/ SendRequest \/ ReadResponse \/ DecodeResponse \/ Render

SpecClient == ClientInit /\ [][ClientNext]_vars

(***************************************************************************)
(* C10                                                                     *)
(***************************************************************************)
\* C10: when connecting, sending, reading or decoding fails, submit_query
\* notifies the operator and results_list holds exactly the rows it held
\* when the query was submitted; nor is a row touched before the response
\* has been decoded.
C10_FailureLeavesList ==
    /\ (client.pc = "ready" /\ client.last = "failed") =>
           /\ client.results_list = client.shown_before
           /\ client.notice = "Error"
    /\ client.pc \in {"connected", "sent", "received", "decoded"} =>
           client.results_list = client.shown_before

\* a query fails on an undecodable response while rows of an earlier query are shown
C10_Witness ==
    /\ client.pc = "ready" /\ client.last = "failed"
    /\ client.queries = 2
    /\ client.data.enc = "empty"
    /\ Len(client.results_list) = 4

====
